---- MODULE Spec2Model ----
(***************************************************************************)
(* A model of wrld (src/wrld.py): the per-item argument expansion          *)
(* pipeline (preprocess_args, insert_line, pysub, cmdsub, subsub,          *)
(* pipesub), the dispatcher of main(), the built-in registry with          *)
(* check_args, and the recursive remove built-in.                          *)
(*                                                                         *)
(* Text is a sequence of one-character strings.  The three private         *)
(* sentinel code points of the program are the tokens BRACES, BS, DELIM.   *)
(* A Python value is a record [t, s, e]: t its type, s its text (str, int),*)
(* e its elements (list, tuple, iterator).                                 *)
(***************************************************************************)
EXTENDS Integers, Sequences, FiniteSets, TLC

VARIABLES
    a_args,          \* a.args: the template as given on the command line
    a_file_list,     \* a.file_list (<<>> stands for None)
    a_no_echo,       \* a.no_echo
    a_test,          \* a.test
    a_prompt,        \* a.prompt
    a_command_string,\* a.command_string
    sys_stdin,       \* the text waiting on standard input
    pc,              \* position in main(): start, preprocess, expand, echo,
                     \* dispatch, done, exit, crashed
    args,            \* main's args after the escape of \{}
    stdin,           \* main's stdin: [some |-> BOOLEAN, text |-> ...]
    items,           \* main's items
    sub_indicies,    \* kind of each template position ("lit" for the unmarked)
    args_with_code,  \* the compiled forms
    i,               \* index of the current item (0-based)
    namespace,       \* bindings of the shared evaluation namespace (i, l)
    args_with_line,  \* the forms after insert_line, for the current item
    cmd_subbed_args, \* the final argument vector of the current item
    vectors,         \* history: the final vector built for each item so far
    calls,           \* history: every handler invocation and external run
    stderr,          \* history: echoed vectors and error reports
    exc,             \* the uncaught exception that ended the run, or "none"
    exitcode,        \* the process exit status, -1 while running
    fs,              \* remove(): the paths that exist
    fs0,             \* remove(): the tree as it was before the call
    locked,          \* remove(): the paths whose deletion is refused (EPERM)
    todo,            \* remove(): the deletions of the bottom-up walk still to do
    rpc,             \* remove(): position: idle, walk, top, done, crashed
    rerr             \* remove(): the PermissionErrors reported, in order

vars == <<a_args, a_file_list, a_no_echo, a_test, a_prompt, a_command_string,
          sys_stdin, pc, args, stdin, items, sub_indicies, args_with_code, i,
          namespace, args_with_line, cmd_subbed_args, vectors, calls, stderr,
          exc, exitcode, fs, fs0, locked, todo, rpc, rerr>>

mainvars == <<a_args, a_file_list, a_no_echo, a_test, a_prompt,
              a_command_string, sys_stdin, pc, args, stdin, items,
              sub_indicies, args_with_code, i, namespace, args_with_line,
              cmd_subbed_args, vectors, calls, stderr, exc, exitcode>>

rmvars == <<fs, fs0, locked, todo, rpc, rerr>>

----------------------------------------------------------------------------
(* Bounds of the model.                                                    *)

MaxArgs == 3
MaxItems == 2
MaxLocked == 1

----------------------------------------------------------------------------
(* Characters and the program's constants.                                 *)

BRACES == "U+C41BB"
BS == "U+C41BD"
DELIM == "U+C41BE"

NL == "\n"
BSL == "\\"

Digits == {"0", "1", "2", "3", "4", "5", "6", "7", "8", "9"}

Lower == {"a", "b", "c", "d", "e", "f", "g", "h", "i", "j", "k", "l", "m",
          "n", "o", "p", "q", "r", "s", "t", "u", "v", "w", "x", "y", "z"}

Upper == {"A", "B", "C", "D", "E", "F", "G", "H", "I", "J", "K", "L", "M",
          "N", "O", "P", "Q", "R", "S", "T", "U", "V", "W", "X", "Y", "Z"}

\* str.isalnum() of one character
IsAlnum(c) == c \in Digits \cup Lower \cup Upper

\* the characters str.strip() removes
IsSpace(c) == c \in {" ", NL, "\t"}

----------------------------------------------------------------------------
(* Python's str methods, on sequences of characters.                       *)

StartsWith(s, p) ==
    /\ Len(s) >= Len(p)
    /\ SubSeq(s, 1, Len(p)) = p

Contains(s, c) == \E k \in 1..Len(s) : s[k] = c

\* s[n:]
From(s, n) == SubSeq(s, n + 1, Len(s))

\* str.replace(old, new) for a non-empty old: leftmost, non-overlapping, the
\* inserted text is not scanned again
RECURSIVE Replace(_, _, _)
Replace(s, old, new) ==
    IF Len(s) < Len(old) THEN s
    ELSE IF SubSeq(s, 1, Len(old)) = old
         THEN new \o Replace(From(s, Len(old)), old, new)
         ELSE <<s[1]>> \o Replace(Tail(s), old, new)

\* str.split(d) for a one-character d: always at least one field
RECURSIVE Split(_, _)
Split(s, d) ==
    IF ~Contains(s, d) THEN <<s>>
    ELSE LET k == CHOOSE n \in 1..Len(s) :
                      s[n] = d /\ \A m \in 1..(n - 1) : s[m] # d
         IN <<SubSeq(s, 1, k - 1)>> \o Split(From(s, k), d)

\* sep.join(parts)
RECURSIVE Join(_, _)
Join(parts, sep) ==
    IF parts = <<>> THEN <<>>
    ELSE IF Len(parts) = 1 THEN parts[1]
    ELSE parts[1] \o sep \o Join(Tail(parts), sep)

\* str.lstrip()
RECURSIVE LStrip(_)
LStrip(s) ==
    IF s # <<>> /\ IsSpace(s[1]) THEN LStrip(Tail(s)) ELSE s

\* str.rstrip()
RECURSIVE RStrip(_)
RStrip(s) ==
    IF s # <<>> /\ IsSpace(s[Len(s)]) THEN RStrip(SubSeq(s, 1, Len(s) - 1))
    ELSE s

\* str.rstrip('\n')
RECURSIVE RStripNL(_)
RStripNL(s) ==
    IF s # <<>> /\ s[Len(s)] = NL THEN RStripNL(SubSeq(s, 1, Len(s) - 1))
    ELSE s

\* str.splitlines(): no empty last line after a final newline
SplitLines(s) ==
    IF s = <<>> THEN <<>>
    ELSE LET f == Split(s, NL)
         IN IF f[Len(f)] = <<>> THEN SubSeq(f, 1, Len(f) - 1) ELSE f

\* iterating a text file: the lines with their newline kept
FileLines(s) ==
    LET f == Split(s, NL)
        n == Len(f)
    IN [k \in 1..(IF f[n] = <<>> THEN n - 1 ELSE n) |->
            IF k < n THEN f[k] \o <<NL>> ELSE f[k]]

\* shlex.split() of a text without quotes or backslashes: the words between
\* runs of white space
RECURSIVE ShlexSplit(_)
ShlexSplit(s) ==
    LET t == LStrip(s)
    IN IF t = <<>> THEN <<>>
       ELSE LET ends == {n \in 1..Len(t) : IsSpace(t[n])}
                k == IF ends = {} THEN Len(t) + 1
                     ELSE CHOOSE n \in ends : \A m \in ends : n <= m
            IN <<SubSeq(t, 1, k - 1)>> \o ShlexSplit(From(t, k - 1))

----------------------------------------------------------------------------
(* Python values and the evaluation of the expressions used as @py         *)
(* arguments and as \e replacements.                                       *)

PyStr(s) == [t |-> "str", s |-> s, e |-> <<>>]
PyInt(s) == [t |-> "int", s |-> s, e |-> <<>>]
PyList(e) == [t |-> "list", s |-> <<>>, e |-> e]
PyTuple(e) == [t |-> "tuple", s |-> <<>>, e |-> e]
PyIter(e) == [t |-> "iter", s |-> <<>>, e |-> e]
PyRaise(name) == [t |-> "raise", s |-> <<name>>, e |-> <<>>]

\* a binding of the namespace: <<>> when the name is not bound
Unbound == <<>>
Bound(s) == <<s>>

\* a name, a string literal, an integer literal, 1/0; any other name is
\* handed to __import__ by GenerousNamespace.__missing__ and fails
PyAtom(src, env) ==
    IF src = <<"i">> THEN
        IF env.i = Unbound THEN PyRaise("ImportError") ELSE PyStr(env.i[1])
    ELSE IF src = <<"l">> THEN
        IF env.l = Unbound THEN PyRaise("ImportError") ELSE PyStr(env.l[1])
    ELSE IF src = <<"m", "[", "0", "]">> THEN
        IF env.m = Unbound THEN PyRaise("ImportError") ELSE PyStr(env.m[1])
    ELSE IF Len(src) >= 2 /\ src[1] = "\"" /\ src[Len(src)] = "\""
            /\ ~Contains(SubSeq(src, 2, Len(src) - 1), "\"") THEN
        PyStr(SubSeq(src, 2, Len(src) - 1))
    ELSE IF src # <<>> /\ \A k \in 1..Len(src) : src[k] \in Digits THEN
        PyInt(src)
    ELSE IF src = <<"1", "/", "0">> THEN PyRaise("ZeroDivisionError")
    ELSE PyRaise("ImportError")

\* the elements of a display: the atoms between the commas
PyElems(inner, env) ==
    LET f == Split(inner, ",")
        g == IF f[Len(f)] = <<>> \/ RStrip(LStrip(f[Len(f)])) = <<>>
             THEN SubSeq(f, 1, Len(f) - 1) ELSE f
    IN [k \in 1..Len(g) |-> PyAtom(RStrip(LStrip(g[k])), env)]

FirstRaise(vs) ==
    vs[CHOOSE k \in 1..Len(vs) :
           vs[k].t = "raise" /\ \A j \in 1..(k - 1) : vs[j].t # "raise"]

PyDisplay(inner, env, tuple) ==
    LET vs == PyElems(inner, env)
    IN IF \E k \in 1..Len(vs) : vs[k].t = "raise" THEN FirstRaise(vs)
       ELSE IF tuple THEN PyTuple(vs) ELSE PyList(vs)

\* iter(x)
PyIterOf(v) ==
    IF v.t = "raise" THEN v
    ELSE IF v.t = "str" THEN PyIter([k \in 1..Len(v.s) |-> PyStr(<<v.s[k]>>)])
    ELSE IF v.t \in {"list", "tuple", "iter"} THEN PyIter(v.e)
    ELSE PyRaise("TypeError")

\* eval(code, env) of a compiled expression: a list display, a tuple
\* display, iter(...) of either or of an atom, or an atom
PyEval(src, env) ==
    LET n == Len(src)
        Inner(a, b) == SubSeq(src, a + 1, n - b)
        Seqv(s) ==
            LET m == Len(s)
            IN IF m >= 2 /\ s[1] = "[" /\ s[m] = "]"
               THEN PyDisplay(SubSeq(s, 2, m - 1), env, FALSE)
               ELSE IF m >= 2 /\ s[1] = "(" /\ s[m] = ")"
                       /\ Contains(s, ",")
               THEN PyDisplay(SubSeq(s, 2, m - 1), env, TRUE)
               ELSE PyAtom(s, env)
    IN IF n >= 6 /\ SubSeq(src, 1, 5) = <<"i", "t", "e", "r", "(">>
          /\ src[n] = ")"
       THEN PyIterOf(Seqv(Inner(5, 1)))
       ELSE Seqv(src)

\* compile(source, '<string>', 'eval'): an empty source is a SyntaxError
CompileOK(src) == src # <<>>

----------------------------------------------------------------------------
(* The external programs the filters of the model run.                     *)

LowerSeq == <<"a", "b", "c", "d", "e", "f", "g", "h", "i", "j", "k", "l",
              "m", "n", "o", "p", "q", "r", "s", "t", "u", "v", "w", "x",
              "y", "z">>

UpperSeq == <<"A", "B", "C", "D", "E", "F", "G", "H", "I", "J", "K", "L",
              "M", "N", "O", "P", "Q", "R", "S", "T", "U", "V", "W", "X",
              "Y", "Z">>

ToUpperC(c) ==
    IF \E k \in 1..26 : LowerSeq[k] = c
    THEN UpperSeq[CHOOSE k \in 1..26 : LowerSeq[k] = c] ELSE c

ToLowerC(c) ==
    IF \E k \in 1..26 : UpperSeq[k] = c
    THEN LowerSeq[CHOOSE k \in 1..26 : UpperSeq[k] = c] ELSE c

\* the lines of a text, each ended by a newline
Unlines(ls) == Join([k \in 1..Len(ls) |-> ls[k] \o <<NL>>], <<>>)

\* subprocess.run(cmd, input=text, stdout=PIPE): err names the exception
\* of a run that could not start, rc is the exit status, out the output
Run(cmd, input) ==
    LET ok(out) == [err |-> "none", rc |-> 0, out |-> out]
        ls == SplitLines(input)
    IN IF cmd = <<>> THEN [err |-> "IndexError", rc |-> 0, out |-> <<>>]
       ELSE IF cmd[1] = <<"c", "a", "t">> THEN ok(input)
       ELSE IF cmd[1] = <<"e", "c", "h", "o">> THEN
           ok(Join(Tail(cmd), <<" ">>) \o <<NL>>)
       ELSE IF cmd[1] = <<"t", "r">> THEN
           ok([k \in 1..Len(input) |-> ToUpperC(input[k])])
       ELSE IF cmd[1] = <<"h", "e", "a", "d">> THEN
           ok(IF ls = <<>> THEN <<>> ELSE ls[1] \o <<NL>>)
       ELSE IF cmd[1] = <<"s", "e", "d">> THEN
           ok(Unlines([k \in 1..(2 * Len(ls)) |-> ls[(k + 1) \div 2]]))
       ELSE IF cmd[1] = <<"f", "a", "l", "s", "e">> THEN
           [err |-> "none", rc |-> 1, out |-> <<>>]
       ELSE [err |-> "FileNotFoundError", rc |-> 0, out |-> <<>>]

----------------------------------------------------------------------------
(* re.sub for a non-empty pattern of literal characters and ".", with an   *)
(* optional inline flag group "(?flags)" in front of it.                   *)

HasFlagGroup(pat) ==
    /\ Len(pat) >= 3
    /\ pat[1] = "(" /\ pat[2] = "?"
    /\ Contains(pat, ")")

FlagEnd(pat) == CHOOSE n \in 1..Len(pat) :
                    pat[n] = ")" /\ \A m \in 1..(n - 1) : pat[m] # ")"

RegexFlags(pat) == IF HasFlagGroup(pat) THEN SubSeq(pat, 3, FlagEnd(pat) - 1)
                   ELSE <<>>

RegexBody(pat) == IF HasFlagGroup(pat) THEN From(pat, FlagEnd(pat)) ELSE pat

MatchAt(body, ci, s) ==
    /\ Len(s) >= Len(body)
    /\ \A k \in 1..Len(body) :
          \/ body[k] = "." /\ s[k] # NL
          \/ body[k] = s[k]
          \/ ci /\ ToLowerC(body[k]) = ToLowerC(s[k])

\* left: the replacements still allowed, -1 for no limit
RECURSIVE ReSubFrom(_, _, _, _, _, _)
ReSubFrom(body, ci, rep, env, s, left) ==
    IF s = <<>> \/ left = 0 THEN s
    ELSE IF MatchAt(body, ci, s) THEN
        LET m == SubSeq(s, 1, Len(body))
            r == IF rep.code
                 THEN PyEval(rep.s, [env EXCEPT !.m = Bound(m)]).s
                 ELSE rep.s
        IN r \o ReSubFrom(body, ci, rep, env, From(s, Len(body)),
                          IF left > 0 THEN left - 1 ELSE left)
    ELSE <<s[1]>> \o ReSubFrom(body, ci, rep, env, Tail(s), left)

\* re.sub(pat, rep, string, count): count = 0 replaces every match
ReSub(pat, rep, env, s, count) ==
    ReSubFrom(RegexBody(pat), Contains(RegexFlags(pat), "i"), rep, env, s,
              IF count = 0 THEN -1 ELSE count)

\* a match whose \e replacement does not evaluate to a string makes re.sub
\* raise
ReSubRaises(pat, rep, env, s) ==
    /\ rep.code
    /\ \E k \in 1..Len(s) :
          /\ MatchAt(RegexBody(pat), Contains(RegexFlags(pat), "i"),
                     From(s, k - 1))
          /\ PyEval(rep.s, [env EXCEPT
                 !.m = Bound(SubSeq(s, k, k + Len(RegexBody(pat)) - 1))]).t
             # "str"

----------------------------------------------------------------------------
(* The registry of built-ins and check_args.                               *)

BUILTINS ==
    { [name |-> <<"m", "o", "v", "e">>, num |-> 2, resolve_dest |-> FALSE],
      [name |-> <<"c", "o", "p", "y">>, num |-> 2, resolve_dest |-> FALSE],
      [name |-> <<"s", "l", "i", "n", "k">>, num |-> 2,
       resolve_dest |-> TRUE],
      [name |-> <<"s", "r", "l", "i", "n", "k">>, num |-> 2,
       resolve_dest |-> TRUE],
      [name |-> <<"h", "l", "i", "n", "k">>, num |-> 2,
       resolve_dest |-> TRUE],
      [name |-> <<"r", "e", "m", "o", "v", "e">>, num |-> 1,
       resolve_dest |-> FALSE],
      [name |-> <<"m", "a", "k", "e", "d", "i", "r">>, num |-> 1,
       resolve_dest |-> FALSE] }

\* name in BUILTINS
InBuiltins(name) == \E b \in BUILTINS : b.name = name

\* BUILTINS[name]
Builtin(name) == CHOOSE b \in BUILTINS : b.name = name

\* check_args as it would be if it refused only a surplus of arguments
CheckArgsOK_atmost(cmd, targs) == Len(targs) - 1 <= Builtin(cmd).num

\* check_args passes: the template holds exactly num arguments after the
\* command name
CheckArgsOK(cmd, targs) == Len(targs) - 1 = Builtin(cmd).num

\* the exception a handler raises on the arguments alone, before it touches
\* the file system: a starred call with the wrong number of arguments, an
\* index past the end of args, or an argument that is not a string
HandlerUsageError(name, hargs) ==
    LET n == Len(hargs)
    IN IF name \in {<<"m", "o", "v", "e">>} THEN
           IF n \in {2, 3} THEN "none" ELSE "TypeError"
       ELSE IF name \in {<<"c", "o", "p", "y">>} THEN
           IF n = 2 THEN "none" ELSE "TypeError"
       ELSE IF name \in {<<"s", "l", "i", "n", "k">>,
                         <<"s", "r", "l", "i", "n", "k">>} THEN
           IF n >= 2 THEN "none" ELSE "IndexError"
       ELSE IF name \in {<<"h", "l", "i", "n", "k">>} THEN
           IF n = 0 THEN "IndexError"
           ELSE IF n = 2 THEN "none" ELSE "TypeError"
       ELSE IF n >= 1 THEN "none" ELSE "IndexError"

----------------------------------------------------------------------------
(* preprocess_args.                                                        *)

NoRep == [code |-> FALSE, s |-> <<>>]

FStr(s) == [t |-> "str", s |-> s, pat |-> <<>>, rep |-> NoRep,
            lines |-> <<>>]
FCode(s) == [t |-> "code", s |-> s, pat |-> <<>>, rep |-> NoRep,
             lines |-> <<>>]
FSub(pat, rep) == [t |-> "tuple", s |-> <<>>, pat |-> pat, rep |-> rep,
                   lines |-> <<>>]
FLines(ls) == [t |-> "list", s |-> <<>>, pat |-> <<>>, rep |-> NoRep,
               lines |-> ls]

Pre(err, kind, form) == [err |-> err, kind |-> kind, form |-> form]

\* the 's' branch
PreSub(arg) ==
    LET dlmtr == arg[2]
        sub == Tail(Split(Replace(Replace(arg, <<BSL, BSL>>, <<BS>>),
                                  <<BSL, dlmtr>>, <<DELIM>>), dlmtr))
        Back(x) == Replace(Replace(x, <<BS>>, <<BSL, BSL>>),
                           <<DELIM>>, <<dlmtr>>)
    IN IF Len(sub) # 3 THEN Pre("ValueError", "sub", FStr(<<>>))
       ELSE
        LET pat0 == Back(sub[1])
            rep0 == Back(sub[2])
            flags0 == Back(sub[3])
            iscode == StartsWith(rep0, <<BSL, "e">>)
            rep == IF iscode
                   THEN [code |-> TRUE, s |-> LStrip(From(rep0, 2))]
                   ELSE [code |-> FALSE, s |-> rep0]
            \* computed by the program and never stored or used
            count == IF Contains(flags0, "g") THEN 0 ELSE 1
            flags == Replace(flags0, <<"g">>, <<>>)
            pat == IF flags # <<>>
                   THEN <<"(", "?">> \o flags \o <<")">> \o pat0
                   ELSE pat0
        IN IF iscode /\ ~CompileOK(rep.s)
           THEN Pre("SyntaxError", "sub", FStr(<<>>))
           ELSE Pre("none", "sub", FSub(pat, rep))

\* the '|' branch
PrePipe(arg, sin) ==
    LET r == Run(ShlexSplit(From(arg, 1)), sin.text)
    IN IF r.err # "none" THEN Pre(r.err, "pipe", FStr(<<>>))
       ELSE IF r.rc # 0 THEN Pre("CalledProcessError", "pipe", FStr(<<>>))
       ELSE Pre("none", "pipe", FLines(SplitLines(r.out)))

\* one turn of the loop of preprocess_args
PreprocessArg(arg, sin) ==
    IF StartsWith(arg, <<"@", "p", "y", " ">>) THEN
        IF CompileOK(LStrip(From(arg, 4)))
        THEN Pre("none", "py", FCode(LStrip(From(arg, 4))))
        ELSE Pre("SyntaxError", "py", FStr(<<>>))
    ELSE IF StartsWith(arg, <<"s">>) /\ Len(arg) < 2 THEN
        Pre("IndexError", "lit", FStr(<<>>))
    ELSE IF StartsWith(arg, <<"s">>) /\ ~IsAlnum(arg[2]) THEN PreSub(arg)
    ELSE IF arg = <<>> THEN Pre("IndexError", "lit", FStr(<<>>))
    ELSE IF arg[1] = "|" THEN PrePipe(arg, sin)
    ELSE IF arg[1] = "@" THEN Pre("none", "cmd", FStr(From(arg, 1)))
    ELSE IF arg[1] = BSL THEN Pre("none", "lit", FStr(From(arg, 1)))
    ELSE Pre("none", "lit", FStr(arg))

\* the position of the first failure in a sequence of results, 0 if none
FirstErr(rs) ==
    IF \A k \in 1..Len(rs) : rs[k].err = "none" THEN 0
    ELSE CHOOSE k \in 1..Len(rs) :
             rs[k].err # "none" /\ \A j \in 1..(k - 1) : rs[j].err = "none"

----------------------------------------------------------------------------
(* insert_line and the four per-item filters.                              *)

insert_line(line, forms) ==
    [k \in 1..Len(forms) |->
        IF forms[k].t = "str"
        THEN [forms[k] EXCEPT
                 !.s = Replace(Replace(@, <<"{", "}">>, line),
                               <<BRACES>>, <<"{", "}">>)]
        ELSE forms[k]]

Out(err, vals) == [err |-> err, vals |-> vals]

\* pysub as it would be with isinstance(value, list) alone: a tuple or an
\* iterator is turned into text like a scalar
pysub_listonly(arg, line, num) ==
    LET value == PyEval(arg.s, [i |-> Bound(line), l |-> Bound(line),
                                m |-> Unbound])
    IN IF value.t = "raise" THEN Out(value.s[1], <<>>)
       ELSE IF value.t = "list" THEN Out("none", value.e)
       ELSE Out("none", <<PyStr(value.s)>>)

\* pysub, with l and i already bound to the line
pysub(arg, line, num) ==
    LET value == PyEval(arg.s, [i |-> Bound(line), l |-> Bound(line),
                                m |-> Unbound])
    IN IF value.t = "raise" THEN Out(value.s[1], <<>>)
       ELSE IF value.t \in {"list", "tuple", "iter"} THEN Out("none", value.e)
       ELSE Out("none", <<PyStr(value.s)>>)

cmdsub(arg, line, num) ==
    LET r == Run(ShlexSplit(arg.s), line)
    IN IF r.err # "none" THEN Out(r.err, <<>>)
       ELSE Out("none", <<PyStr(RStrip(r.out))>>)

\* the replacement expression sees a namespace that binds only m
subsub(arg, line, num) ==
    LET env == [i |-> Unbound, l |-> Unbound, m |-> Unbound]
    IN IF ReSubRaises(arg.pat, arg.rep, env, line) THEN Out("TypeError", <<>>)
       ELSE Out("none", <<PyStr(ReSub(arg.pat, arg.rep, env, line, 0))>>)

pipesub(arg, line, num) ==
    IF num + 1 > Len(arg.lines) THEN Out("IndexError", <<>>)
    ELSE Out("none", <<PyStr(arg.lines[num + 1])>>)

\* what one template position contributes to the final vector
Contribution(kind, arg, line, num) ==
    IF kind = "py" THEN pysub(arg, line, num)
    ELSE IF kind = "cmd" THEN cmdsub(arg, line, num)
    ELSE IF kind = "sub" THEN subsub(arg, line, num)
    ELSE IF kind = "pipe" THEN pipesub(arg, line, num)
    ELSE Out("none", <<PyStr(arg.s)>>)

RECURSIVE Flatten(_)
Flatten(ss) == IF ss = <<>> THEN <<>> ELSE ss[1] \o Flatten(Tail(ss))

----------------------------------------------------------------------------
(* main().                                                                 *)

Echo(v) == [k |-> "echo", v |-> v, m |-> "none"]
Err(m) == [k |-> "error", v |-> <<>>, m |-> m]

\* where the loop over the items goes after item number n (0-based) - 1
LoopPc(n, its) == IF n < Len(its) THEN "expand" ELSE "done"
LoopExit(n, its) == IF n < Len(its) THEN -1 ELSE 0

\* an exception nothing catches: the traceback, exit status 1
Crash(name) ==
    /\ pc' = "crashed"
    /\ exc' = name
    /\ exitcode' = 1

\* lines 343-360: the arguments, the arity check of a built-in named by the
\* template, the source of the items
Startup ==
    /\ pc = "start"
    /\ UNCHANGED <<a_args, a_file_list, a_no_echo, a_test, a_prompt,
                   a_command_string, sys_stdin, sub_indicies, args_with_code,
                   i, namespace, args_with_line, cmd_subbed_args, vectors,
                   calls>>
    /\ UNCHANGED rmvars
    /\ IF a_command_string THEN
           \* args is read before it is assigned
           /\ Crash("UnboundLocalError")
           /\ UNCHANGED <<args, stdin, items, stderr>>
       ELSE
           LET as == [k \in 1..Len(a_args) |->
                         Replace(a_args[k], <<BSL, "{", "}">>, <<BRACES>>)]
           IN /\ args' = as
              /\ IF InBuiltins(as[1]) /\ ~CheckArgsOK(as[1], as) THEN
                     /\ pc' = "exit"
                     /\ exitcode' = 1
                     /\ stderr' = Append(stderr, Err("usage"))
                     /\ UNCHANGED <<stdin, items, exc>>
                 ELSE
                     /\ pc' = "preprocess"
                     /\ UNCHANGED <<stderr, exc, exitcode>>
                     /\ IF a_file_list # <<>> THEN
                            /\ stdin' = [some |-> TRUE,
                                         text |-> Join(a_file_list, <<NL>>)]
                            /\ items' = a_file_list
                        ELSE IF \E k \in 1..Len(as) :
                                    StartsWith(as[k], <<"|">>) THEN
                            /\ stdin' = [some |-> TRUE, text |-> sys_stdin]
                            /\ items' = SplitLines(sys_stdin)
                        ELSE
                            /\ stdin' = [some |-> FALSE, text |-> <<>>]
                            /\ items' =
                                 [k \in 1..Len(FileLines(sys_stdin)) |->
                                     RStripNL(FileLines(sys_stdin)[k])]

\* line 362: preprocess_args(args, stdin)
Preprocess ==
    /\ pc = "preprocess"
    /\ UNCHANGED <<a_args, a_file_list, a_no_echo, a_test, a_prompt,
                   a_command_string, sys_stdin, args, stdin, items, i,
                   namespace, args_with_line, cmd_subbed_args, vectors,
                   calls, stderr>>
    /\ UNCHANGED rmvars
    /\ LET rs == [k \in 1..Len(args) |-> PreprocessArg(args[k], stdin)]
           bad == FirstErr(rs)
       IN IF bad # 0 THEN
              /\ Crash(rs[bad].err)
              /\ UNCHANGED <<sub_indicies, args_with_code>>
          ELSE
              /\ sub_indicies' = [k \in 1..Len(rs) |-> rs[k].kind]
              /\ args_with_code' = [k \in 1..Len(rs) |-> rs[k].form]
              /\ pc' = LoopPc(0, items)
              /\ exitcode' = LoopExit(0, items)
              /\ UNCHANGED exc

\* the loop body of lines 371-385 for one item: the forms after
\* insert_line, the position of the first filter that raised (0 if none),
\* the vector as far as it was built, and whether pysub ran (it binds l
\* before it evaluates)
ExpandResult(awl, cs, bad) ==
    [awl |-> awl,
     err |-> IF bad = 0 THEN "none" ELSE cs[bad].err,
     vec |-> Flatten([k \in 1..(IF bad = 0 THEN Len(cs) ELSE bad - 1) |->
                         cs[k].vals]),
     pyrun |-> \E k \in 1..(IF bad = 0 THEN Len(cs) ELSE bad) :
                   cs[k].py]

ExpandContribs(awl, kinds, line, num) ==
    [k \in 1..Len(awl) |->
        [py |-> kinds[k] = "py"] @@ Contribution(kinds[k], awl[k], line, num)]

ExpandFrom(awl, cs) == ExpandResult(awl, cs, FirstErr(cs))

ExpandAwl(awl, kinds, line, num) ==
    ExpandFrom(awl, ExpandContribs(awl, kinds, line, num))

ExpandItem(line, num, forms, kinds) ==
    ExpandAwl(insert_line(line, forms), kinds, line, num)

\* lines 364-385: the final argument vector of item i
Expand ==
    /\ pc = "expand"
    /\ UNCHANGED <<a_args, a_file_list, a_no_echo, a_test, a_prompt,
                   a_command_string, sys_stdin, args, stdin, items,
                   sub_indicies, args_with_code, i, calls, stderr>>
    /\ UNCHANGED rmvars
    /\ \E r \in {ExpandItem(items[i + 1], i, args_with_code, sub_indicies)} :
          /\ namespace' = [i |-> Bound(items[i + 1]),
                           l |-> IF r.pyrun THEN Bound(items[i + 1])
                                 ELSE namespace.l]
          /\ args_with_line' = r.awl
          /\ cmd_subbed_args' = r.vec
          /\ IF r.err # "none" THEN
                 /\ Crash(r.err)
                 /\ UNCHANGED vectors
             ELSE
                 /\ vectors' = Append(vectors, r.vec)
                 /\ pc' = "echo"
                 /\ UNCHANGED <<exc, exitcode>>

\* lines 391-398: the echo (shlex.quote takes strings only), the prompt,
\* the test run
EchoStep ==
    /\ pc = "echo"
    /\ UNCHANGED <<a_args, a_file_list, a_no_echo, a_test, a_prompt,
                   a_command_string, sys_stdin, args, stdin, items,
                   sub_indicies, args_with_code, namespace, args_with_line,
                   cmd_subbed_args, vectors, calls>>
    /\ UNCHANGED rmvars
    /\ IF ~a_no_echo /\ \E k \in 1..Len(cmd_subbed_args) :
                            cmd_subbed_args[k].t # "str" THEN
           /\ Crash("TypeError")
           /\ UNCHANGED <<i, stderr>>
       ELSE
           /\ stderr' = IF a_no_echo THEN stderr
                        ELSE Append(stderr, Echo(cmd_subbed_args))
           /\ UNCHANGED exc
           /\ \E answer \in IF a_prompt THEN {"y", "n"} ELSE {"y"} :
                  IF answer # "y" \/ a_test THEN
                      /\ i' = i + 1
                      /\ pc' = LoopPc(i + 1, items)
                      /\ exitcode' = LoopExit(i + 1, items)
                  ELSE
                      /\ pc' = "dispatch"
                      /\ UNCHANGED <<i, exitcode>>

Call(builtin, cmd, hargs, n) ==
    [builtin |-> builtin, cmd |-> cmd, args |-> hargs, item |-> n]

\* lines 400-408: the built-in handler, or the external process.  out is
\* what the file system or the operating system answers.
Dispatch ==
    /\ pc = "dispatch"
    /\ UNCHANGED <<a_args, a_file_list, a_no_echo, a_test, a_prompt,
                   a_command_string, sys_stdin, args, stdin, items,
                   sub_indicies, args_with_code, namespace, args_with_line,
                   cmd_subbed_args, vectors>>
    /\ UNCHANGED rmvars
    /\ \E out \in {"ok", "FileExistsError", "FileNotFoundError"} :
       LET Continue == /\ i' = i + 1
                       /\ pc' = LoopPc(i + 1, items)
                       /\ exitcode' = LoopExit(i + 1, items)
                       /\ UNCHANGED exc
           Stop(name) == Crash(name) /\ UNCHANGED i
       IN IF cmd_subbed_args = <<>> THEN
              /\ Stop("IndexError")
              /\ UNCHANGED <<calls, stderr>>
          ELSE
           LET cmd == cmd_subbed_args[1]
               hargs == Tail(cmd_subbed_args)
               strs == \A k \in 1..Len(hargs) : hargs[k].t = "str"
           IN IF cmd.t # "str" THEN
                  \* BUILTINS[cmd] raises KeyError, then cmd[1:] TypeError
                  /\ Stop("TypeError")
                  /\ UNCHANGED <<calls, stderr>>
              ELSE IF InBuiltins(cmd.s) THEN
                  /\ calls' = Append(calls, Call(TRUE, cmd.s, hargs, i))
                  /\ IF HandlerUsageError(cmd.s, hargs) # "none" THEN
                         /\ Stop(HandlerUsageError(cmd.s, hargs))
                         /\ UNCHANGED stderr
                     ELSE IF ~strs THEN
                         /\ Stop("TypeError")
                         /\ UNCHANGED stderr
                     ELSE IF out = "FileExistsError" THEN
                         /\ stderr' = Append(stderr, Err(out))
                         /\ Continue
                     ELSE IF out = "ok" THEN
                         /\ Continue
                         /\ UNCHANGED stderr
                     ELSE
                         /\ Stop(out)
                         /\ UNCHANGED stderr
              ELSE
               LET run == IF cmd.s # <<>> /\ cmd.s[1] = BSL
                             /\ InBuiltins(Tail(cmd.s))
                          THEN Tail(cmd.s) ELSE cmd.s
               IN /\ calls' = Append(calls, Call(FALSE, run, hargs, i))
                  /\ UNCHANGED stderr
                  /\ IF ~strs THEN Stop("TypeError")
                     ELSE IF out = "FileNotFoundError" THEN Stop(out)
                     ELSE Continue

Next == Startup \/ Preprocess \/ Expand \/ EchoStep \/ Dispatch

----------------------------------------------------------------------------
(* The runs checked: every template of up to MaxArgs arguments over a pool *)
(* of arguments, on up to MaxItems items over a pool of texts.             *)

SeqsUpTo(S, n) == UNION {[1..k -> S] : k \in 0..n}

RemoveIdle ==
    /\ fs = {}
    /\ fs0 = <<>>
    /\ locked = {}
    /\ todo = <<>>
    /\ rpc = "idle"
    /\ rerr = <<>>

InitWith(Templates, Lines, FileListModes, Echoes, Tests, Prompts, CmdStrs) ==
    /\ a_args \in Templates
    /\ \E ls \in Lines, fl \in FileListModes :
          /\ a_file_list = IF fl THEN ls ELSE <<>>
          /\ sys_stdin = IF fl THEN <<>> ELSE Unlines(ls)
    /\ a_no_echo \in Echoes
    /\ a_test \in Tests
    /\ a_prompt \in Prompts
    /\ a_command_string \in CmdStrs
    /\ pc = "start"
    /\ args = <<>>
    /\ stdin = [some |-> FALSE, text |-> <<>>]
    /\ items = <<>>
    /\ sub_indicies = <<>>
    /\ args_with_code = <<>>
    /\ i = 0
    /\ namespace = [i |-> Unbound, l |-> Unbound]
    /\ args_with_line = <<>>
    /\ cmd_subbed_args = <<>>
    /\ vectors = <<>>
    /\ calls = <<>>
    /\ stderr = <<>>
    /\ exc = "none"
    /\ exitcode = -1
    /\ RemoveIdle

TemplatesOver(S) == UNION {[1..k -> S] : k \in 1..MaxArgs}

LinesOver(S) == SeqsUpTo(S, MaxItems)

\* template arguments
A_echo == <<"e", "c", "h", "o">>
A_x == <<"x">>
A_item == <<"{", "}">>
A_item2 == <<"a", "{", "}", "{", "}">>
A_s == <<"s">>
A_sed == <<"s", "e", "d">>
A_empty == <<>>
A_move == <<"m", "o", "v", "e">>
A_remove == <<"r", "e", "m", "o", "v", "e">>
A_makedir == <<"m", "a", "k", "e", "d", "i", "r">>
A_escmove == <<BSL, "m", "o", "v", "e">>
A_sub == <<"s", "/", "a", "/", "b", "/">>
A_subg == <<"s", "/", "a", "/", "b", "/", "g">>
A_subi == <<"s", "|", "A", "|", "b", "|", "i">>
A_subd == <<"s", "/", BSL, "/", "/", "b", "/", "g">>
A_sube == <<"s", "/", "a", "/", BSL, "e", " ", "m", "[", "0", "]", "/">>
A_subesc == <<"s", "/", "a", "/", BSL, "{", "}", "/">>
A_escitem == <<BSL, "{", "}">>
A_escmix == <<"{", "}", BSL, "{", "}">>
A_cmdesc == <<"@", "e", "c", "h", "o", " ", BSL, "{", "}">>
A_cmditem == <<"@", "e", "c", "h", "o", " ", "{", "}">>
A_pyesc == <<"@", "p", "y", " ", "\"", BSL, "{", "}", "\"">>
A_pyi == <<"@", "p", "y", " ", "i">>
A_pylist2 == <<"@", "p", "y", " ", "[", "i", ",", "i", "]">>
A_pylist0 == <<"@", "p", "y", " ", "[", "]">>
A_pytuple == <<"@", "p", "y", " ", "(", "i", ",", ")">>
A_pyiter == <<"@", "p", "y", " ", "i", "t", "e", "r", "(", "i", ")">>
A_pyint == <<"@", "p", "y", " ", "7">>
A_pyints == <<"@", "p", "y", " ", "[", "7", "]">>
A_pyraise == <<"@", "p", "y", " ", "1", "/", "0">>
A_pymove == <<"@", "p", "y", " ", "\"", "m", "o", "v", "e", "\"">>
A_pipecat == <<"|", "c", "a", "t">>
A_pipetr == <<"|", "t", "r", " ", "a", "-", "z", " ", "A", "-", "Z">>
A_pipehead == <<"|", "h", "e", "a", "d", " ", "-", "n", "1">>
A_pipesed == <<"|", "s", "e", "d", " ", "p">>

\* item texts
I_x == <<"x">>
I_y == <<"y">>
I_ab == <<"a", "b">>
I_braces == <<"{", "}">>
I_aa == <<"a", "a">>
I_banana == <<"b", "a", "n", "a", "n", "a">>
I_nl == <<"x", NL, "y">>

InitLit ==
    InitWith(TemplatesOver({A_echo, A_item, A_item2, A_sed, A_s, A_empty}),
             LinesOver({I_x, I_ab, I_braces}), {TRUE, FALSE},
             {FALSE}, {TRUE, FALSE}, {FALSE}, {FALSE})

InitSub ==
    InitWith(TemplatesOver({A_echo, A_item, A_sub, A_subg, A_subi, A_subd,
                            A_sube}),
             LinesOver({I_banana, I_aa, I_x}), {TRUE, FALSE},
             {FALSE}, {FALSE}, {FALSE}, {FALSE})

InitEsc ==
    InitWith(TemplatesOver({A_echo, A_escitem, A_escmix, A_cmdesc, A_cmditem,
                            A_subesc, A_pyesc}),
             LinesOver({I_x, I_braces}), {TRUE, FALSE},
             {FALSE}, {FALSE}, {FALSE}, {FALSE})

InitPy ==
    InitWith(TemplatesOver({A_echo, A_pyi, A_pylist2, A_pylist0, A_pytuple,
                            A_pyiter, A_pyint}),
             LinesOver({I_ab, I_x}), {TRUE},
             {FALSE}, {FALSE}, {FALSE}, {FALSE})

InitFail ==
    InitWith(TemplatesOver({A_echo, A_move, A_item, A_pyi, A_pyraise,
                            A_pylist0, A_pyints}),
             LinesOver({I_x, I_y}), {TRUE},
             {TRUE, FALSE}, {FALSE}, {TRUE, FALSE}, {FALSE})

InitBuiltin ==
    InitWith(TemplatesOver({A_move, A_remove, A_escmove, A_item, A_x,
                            A_pylist0, A_pylist2, A_pymove}),
             LinesOver({I_x, I_y}), {TRUE},
             {FALSE}, {FALSE}, {FALSE}, {FALSE})

InitArity ==
    InitWith(TemplatesOver({A_move, A_remove, A_makedir, A_item, A_x}),
             LinesOver({I_x, I_y}), {TRUE, FALSE},
             {FALSE}, {FALSE}, {FALSE}, {TRUE, FALSE})

InitPipe ==
    InitWith(TemplatesOver({A_echo, A_item, A_pipecat, A_pipetr, A_pipehead,
                            A_pipesed}),
             LinesOver({I_x, I_y, I_nl}), {TRUE, FALSE},
             {FALSE}, {FALSE}, {FALSE}, {FALSE})

SpecLit == InitLit /\ [][Next]_vars
SpecSub == InitSub /\ [][Next]_vars
SpecEsc == InitEsc /\ [][Next]_vars
SpecPy == InitPy /\ [][Next]_vars
SpecFail == InitFail /\ [][Next]_vars
SpecBuiltin == InitBuiltin /\ [][Next]_vars
SpecArity == InitArity /\ [][Next]_vars
SpecPipe == InitPipe /\ [][Next]_vars

----------------------------------------------------------------------------
(* The remove built-in on a directory tree.  A path is a sequence of       *)
(* names; fs0 gives, for every directory, its entries in the order         *)
(* os.walk lists them; fs is the set of paths that exist.                  *)

Entry(name, isdir) == [name |-> name, isdir |-> isdir]

IsDir(tree, p) == p \in DOMAIN tree

RECURSIVE TreePaths(_, _)
TreePaths(tree, top) ==
    {top} \cup
    (IF IsDir(tree, top)
     THEN UNION {TreePaths(tree, Append(top, tree[top][k].name)) :
                     k \in 1..Len(tree[top])}
     ELSE {})

Op(op, path) == [op |-> op, path |-> path]

\* the calls of remover made while remove() consumes
\* os.walk(top, topdown=False): the subdirectories first, then for the
\* directory itself its files, then its subdirectories
RECURSIVE WalkOps(_, _)
WalkOps(tree, top) ==
    IF ~IsDir(tree, top) THEN <<>>
    ELSE LET IsD(e) == e.isdir
             IsF(e) == ~e.isdir
             dirs == SelectSeq(tree[top], IsD)
             files == SelectSeq(tree[top], IsF)
         IN Flatten([k \in 1..Len(dirs) |->
                        WalkOps(tree, Append(top, dirs[k].name))])
            \o [k \in 1..Len(files) |->
                   Op("remove", Append(top, files[k].name))]
            \o [k \in 1..Len(dirs) |->
                   Op("rmdir", Append(top, dirs[k].name))]

HasChild(paths, p) ==
    \E q \in paths : Len(q) = Len(p) + 1 /\ SubSeq(q, 1, Len(p)) = p

\* os.remove(path) / os.rmdir(path): the exception raised, or "none"
OsError(op, path, tree, paths, lck) ==
    IF path \notin paths THEN "FileNotFoundError"
    ELSE IF path \in lck THEN "PermissionError"
    ELSE IF op = "remove" THEN
        IF IsDir(tree, path) THEN "IsADirectoryError" ELSE "none"
    ELSE IF ~IsDir(tree, path) THEN "NotADirectoryError"
    ELSE IF HasChild(paths, path) THEN "OSError"
    ELSE "none"

\* remover(func, path, file): what is left, what is reported, and the
\* exception that leaves remover (only PermissionError is caught)
remover(op, path, tree, paths, lck) ==
    LET F(e) == [fs |-> IF e = "none" THEN paths \ {path} ELSE paths,
                 report |-> e = "PermissionError",
                 raised |-> IF e = "PermissionError" THEN "none" ELSE e]
    IN F(OsError(op, path, tree, paths, lck))

RemoveTop == <<"r">>

\* line 292: the walk starts
RemoveStart ==
    /\ rpc = "idle"
    /\ todo' = WalkOps(fs0, RemoveTop)
    /\ rpc' = "walk"
    /\ UNCHANGED <<fs, fs0, locked, rerr>>
    /\ UNCHANGED mainvars

\* lines 294-298: one call of remover in the walk
RemoveStep ==
    /\ rpc = "walk"
    /\ todo # <<>>
    /\ \E r \in {remover(todo[1].op, todo[1].path, fs0, fs, locked)} :
          /\ fs' = r.fs
          /\ rerr' = IF r.report THEN Append(rerr, todo[1].path) ELSE rerr
          /\ rpc' = IF r.raised # "none" THEN "crashed" ELSE "walk"
    /\ todo' = Tail(todo)
    /\ UNCHANGED <<fs0, locked>>
    /\ UNCHANGED mainvars

\* lines 299-302: the top itself, a directory or else a file
RemoveLast ==
    /\ rpc = "walk"
    /\ todo = <<>>
    /\ \E r \in {remover("rmdir", RemoveTop, fs0, fs, locked)} :
          IF r.raised = "NotADirectoryError" THEN
              \E q \in {remover("remove", RemoveTop, fs0, fs, locked)} :
                  /\ fs' = q.fs
                  /\ rerr' = IF q.report THEN Append(rerr, RemoveTop)
                             ELSE rerr
                  /\ rpc' = IF q.raised # "none" THEN "crashed" ELSE "done"
          ELSE
              /\ fs' = r.fs
              /\ rerr' = IF r.report THEN Append(rerr, RemoveTop) ELSE rerr
              /\ rpc' = IF r.raised # "none" THEN "crashed" ELSE "done"
    /\ UNCHANGED <<fs0, locked, todo>>
    /\ UNCHANGED mainvars

NextRemove == RemoveStart \/ RemoveStep \/ RemoveLast

P_r == <<"r">>
P_a == <<"r", "a">>
P_b == <<"r", "b">>
P_c == <<"r", "a", "c">>

\* r/{a/{f,g}, b/{h}, k}, in two listing orders
TreeWide ==
    (P_r :> <<Entry("a", TRUE), Entry("b", TRUE), Entry("k", FALSE)>>)
    @@ (P_a :> <<Entry("f", FALSE), Entry("g", FALSE)>>)
    @@ (P_b :> <<Entry("h", FALSE)>>)

TreeWideRev ==
    (P_r :> <<Entry("k", FALSE), Entry("b", TRUE), Entry("a", TRUE)>>)
    @@ (P_a :> <<Entry("g", FALSE), Entry("f", FALSE)>>)
    @@ (P_b :> <<Entry("h", FALSE)>>)

\* r/{a/{f}, b/}
TreeEmptyDir ==
    (P_r :> <<Entry("a", TRUE), Entry("b", TRUE)>>)
    @@ (P_a :> <<Entry("f", FALSE)>>)
    @@ (P_b :> <<>>)

\* r/a/c/{f,g}, r/a/h
TreeDeep ==
    (P_r :> <<Entry("a", TRUE)>>)
    @@ (P_a :> <<Entry("c", TRUE), Entry("h", FALSE)>>)
    @@ (P_c :> <<Entry("f", FALSE), Entry("g", FALSE)>>)

\* r/{f}
TreeOne == (P_r :> <<Entry("f", FALSE)>>)

\* r is a file
TreeFile == <<>>

TreePool == {TreeWide, TreeWideRev, TreeEmptyDir, TreeDeep, TreeOne,
             TreeFile}

InitRemove ==
    /\ fs0 \in TreePool
    /\ fs = TreePaths(fs0, RemoveTop)
    /\ locked \in {l \in SUBSET {p \in TreePaths(fs0, RemoveTop) :
                                     ~IsDir(fs0, p)} :
                       Cardinality(l) <= MaxLocked}
    /\ todo = <<>>
    /\ rpc = "idle"
    /\ rerr = <<>>
    /\ a_args = <<A_remove, P_r>>
    /\ a_file_list = <<>>
    /\ a_no_echo = FALSE
    /\ a_test = FALSE
    /\ a_prompt = FALSE
    /\ a_command_string = FALSE
    /\ sys_stdin = <<>>
    /\ pc = "dispatch"
    /\ args = <<>>
    /\ stdin = [some |-> FALSE, text |-> <<>>]
    /\ items = <<>>
    /\ sub_indicies = <<>>
    /\ args_with_code = <<>>
    /\ i = 0
    /\ namespace = [i |-> Unbound, l |-> Unbound]
    /\ args_with_line = <<>>
    /\ cmd_subbed_args = <<>>
    /\ vectors = <<>>
    /\ calls = <<>>
    /\ stderr = <<>>
    /\ exc = "none"
    /\ exitcode = -1

SpecRemove == InitRemove /\ [][NextRemove]_vars

----------------------------------------------------------------------------
(* The claims.                                                             *)

\* the input items as the user gave them: the file list, or the lines of
\* standard input
InputItems == IF a_file_list # <<>> THEN a_file_list ELSE SplitLines(sys_stdin)

\* the expansion loop has built the vector of item i and not yet left it
Expanded == pc \in {"echo", "dispatch"}

Halted == pc \in {"done", "crashed", "exit"}

\* the flags field of an argument s<d>pat<d>rep<d>flags
SubFlags(arg) == Split(arg, arg[2])[Len(Split(arg, arg[2]))]

NoEnv == [i |-> Unbound, l |-> Unbound, m |-> Unbound]

\* C1: a regex-substitution argument replaces only the first match of its
\* pattern in the item text when its flags hold no g, and every match when
\* they hold g (s/a/b/ on "banana" gives "bbnana", s/a/b/g gives "bbnbnb").
\* Stated for the arguments whose replacement is plain text, in templates
\* where every position contributes one argument.
C1_SubstitutionCount ==
    Expanded =>
        \A p \in 1..Len(a_args) :
            (sub_indicies[p] = "sub" /\ ~args_with_code[p].rep.code) =>
                cmd_subbed_args[p] =
                    PyStr(ReSub(args_with_code[p].pat, args_with_code[p].rep,
                                NoEnv, items[i + 1],
                                IF Contains(SubFlags(a_args[p]), "g")
                                THEN 0 ELSE 1))

\* an argument that is a literal by the rules of the filter syntax: it does
\* not begin with @ (so not with "@py " either) or |, is not s followed by a
\* non-alphanumeric delimiter, and holds no backslash
IsLiteralArg(arg) ==
    /\ ~StartsWith(arg, <<"@">>)
    /\ ~StartsWith(arg, <<"|">>)
    /\ ~(Len(arg) >= 2 /\ arg[1] = "s" /\ ~IsAlnum(arg[2]))
    /\ ~Contains(arg, BSL)

LiteralOnly(t) == \A p \in 1..Len(t) : IsLiteralArg(t[p])

\* the template with every {} replaced by the text of the k-th item
Substituted(t, k) ==
    [p \in 1..Len(t) |-> PyStr(Replace(t[p], <<"{", "}">>, InputItems[k]))]

\* the run ended on an exception before the vector of the current item was
\* built (in preprocess_args or in the expansion)
FailedBeforeVector == pc = "crashed" /\ Len(vectors) <= i

\* C2: for a template of literal arguments only, the vector built for the
\* k-th item is the template with every {} replaced by the k-th item's
\* text; the vectors come in input order, one per item: the expansion of
\* such a template never fails, and a run that reaches its end has built a
\* vector for every item.
C2_LiteralTemplate ==
    LiteralOnly(a_args) =>
        /\ \A k \in 1..Len(vectors) : vectors[k] = Substituted(a_args, k)
        /\ ~FailedBeforeVector
        /\ pc = "done" => Len(vectors) = Len(InputItems)

HasSentinel(s) == \E k \in 1..Len(s) : s[k] \in {BRACES, BS, DELIM}

\* the texts of a compiled form that are evaluated or emitted
FormTexts(f) ==
    IF f.t = "tuple" THEN {f.pat, f.rep.s}
    ELSE IF f.t \in {"str", "code"} THEN {f.s}
    ELSE {}

\* C3: an escaped \{} in an argument of any kind (literal, @ command
\* filter, s substitution, @py expression) is never replaced by the item
\* text and is turned back into the two characters {} before the argument
\* is evaluated or placed in the vector: no sentinel character is left in
\* what is evaluated for the item or in the final vector, and the literal
\* argument \{} gives {}.
C3_EscapedBraces ==
    Expanded =>
        /\ \A p \in 1..Len(args_with_line) :
              \A tx \in FormTexts(args_with_line[p]) : ~HasSentinel(tx)
        /\ \A k \in 1..Len(cmd_subbed_args) :
              cmd_subbed_args[k].t = "str" => ~HasSentinel(cmd_subbed_args[k].s)
        /\ \A p \in 1..Len(a_args) :
              a_args[p] = A_escitem =>
                  args_with_line[p].s = <<"{", "}">>

IsPyArg(arg) == StartsWith(arg, <<"@", "p", "y", " ">>)

\* the value of the expression of the @py argument arg for the item text
PyValue(arg, line) ==
    PyEval(LStrip(From(arg, 4)),
           [i |-> Bound(line), l |-> Bound(line), m |-> Unbound])

IsCollection(v) == v.t \in {"list", "tuple", "iter"}

\* the number of arguments position p of the template is to contribute: k
\* for a @py expression whose value is a collection of k elements, 1 for a
\* scalar and for a literal
Width(t, p, line) ==
    IF IsPyArg(t[p]) /\ IsCollection(PyValue(t[p], line))
    THEN Len(PyValue(t[p], line).e) ELSE 1

RECURSIVE WidthBefore(_, _, _)
WidthBefore(t, p, line) ==
    IF p <= 1 THEN 0
    ELSE WidthBefore(t, p - 1, line) + Width(t, p - 1, line)

\* C4: a @py argument at position p whose expression evaluates to a list,
\* tuple or iterator of k elements contributes exactly those k elements, in
\* order, right after the contributions of the positions before p and right
\* before those of the positions after p; an expression that evaluates to a
\* scalar (a string, a number) contributes one argument, its text.  Checked
\* on templates of literals and @py arguments.
C4_PyExpansion ==
    Expanded =>
        /\ Len(cmd_subbed_args) =
               WidthBefore(a_args, Len(a_args) + 1, items[i + 1])
        /\ \A p \in 1..Len(a_args) :
              IsPyArg(a_args[p]) =>
                  SubSeq(cmd_subbed_args,
                         WidthBefore(a_args, p, items[i + 1]) + 1,
                         WidthBefore(a_args, p + 1, items[i + 1]))
                  = IF IsCollection(PyValue(a_args[p], items[i + 1]))
                    THEN PyValue(a_args[p], items[i + 1]).e
                    ELSE <<PyStr(PyValue(a_args[p], items[i + 1]).s)>>

\* C4 witness: a vector is built from a template with a @py argument worth
\* two elements between two other arguments, and from one with a scalar
C4_Witness ==
    /\ Expanded
    /\ Len(a_args) = 3
    /\ a_args[2] \in {A_pylist2, A_pyiter}
    /\ Width(a_args, 2, items[i + 1]) = 2
    /\ a_args[3] \in {A_pyint, A_pyi}
    /\ Len(cmd_subbed_args) = 4

\* C5: a built-in handler is never invoked with a number of arguments other
\* than the one the built-in accepts, however the final vector came to name
\* the built-in and whatever its length.
C5_ArityChecked ==
    \A k \in 1..Len(calls) :
        calls[k].builtin =>
            Len(calls[k].args) = Builtin(calls[k].cmd).num

\* the per-item failures the claim names: an expression that raises, a
\* file-system error of a handler other than target-exists, a missing
\* executable
PerItemFailure == exc \in {"ZeroDivisionError", "FileNotFoundError"}

\* C6: a failure while one item is expanded or dispatched does not stop the
\* later items: a run whose loop has started does not end while an item
\* after the current one is still to be processed.
C6_AllItemsProcessed ==
    (Halted /\ args_with_code # <<>> /\ (exc = "none" \/ PerItemFailure)) =>
        i + 1 >= Len(items)

\* the template names a built-in and gives one argument fewer than the
\* built-in accepts
OneFewer ==
    /\ InBuiltins(a_args[1])
    /\ Len(a_args) - 1 = Builtin(a_args[1]).num - 1

IsPrefix(p, q) == Len(p) <= Len(q) /\ SubSeq(q, 1, Len(p)) = p

\* C8: remove on a tree deletes every entry when no deletion fails; when
\* the deletion of exactly one nested file fails with a permission error,
\* the error is reported, the operation does not abort, and every entry
\* that is neither the file nor one of its ancestor directories is deleted.
C8_RemoveTree ==
    rpc \in {"done", "crashed"} =>
        /\ locked = {} => (rpc = "done" /\ fs = {})
        /\ \A x \in locked :
              (locked = {x} /\ Len(x) >= 2) =>
                  /\ rpc = "done"
                  /\ rerr = <<x>>
                  /\ \A e \in TreePaths(fs0, RemoveTop) :
                        ~IsPrefix(e, x) => e \notin fs

\* C9: the final vector handed to the dispatcher is never empty and its
\* first element is a string.
C9_VectorWellFormed ==
    pc = "dispatch" =>
        /\ cmd_subbed_args # <<>>
        /\ cmd_subbed_args[1].t = "str"

PipePositions == {p \in 1..Len(sub_indicies) : sub_indicies[p] = "pipe"}

\* C10: item k receives the k-th line of the output of a | filter, and when
\* the number of output lines differs from the number of items the run
\* fails without building or dispatching any command.
C10_PipeAligned ==
    /\ Expanded =>
          \A p \in PipePositions :
              cmd_subbed_args[p] = PyStr(args_with_code[p].lines[i + 1])
    /\ \A p \in PipePositions :
          Len(args_with_code[p].lines) # Len(items) =>
              (vectors = <<>> /\ calls = <<>>)

====
